---- MODULE Spec2Model ----
(***************************************************************************)
(* A model of the fact-verification pipeline under src/ai:                 *)
(*   consensus/merge_facts.py     merge                                    *)
(*   validator/validate_sources.py validate                                *)
(*   retriever/search.py          search                                   *)
(*   normalize/normalize.py       normalize                                *)
(*   planner/plan_queries.py      plan                                     *)
(*   orchestrator/run_rag.py      the script that sequences them           *)
(* Python strings are TLA+ strings; lists are sequences; dicts that are    *)
(* iterated keep their insertion order in a sequence of keys.              *)
(***************************************************************************)
EXTENDS Integers, Sequences, FiniteSets, TLC

VARIABLES
    \* ---- merge driver (SpecMerge)
    mpc,              \* "input" | "merged"
    extracted_facts,  \* the argument of merge
    permuted,         \* a permutation of extracted_facts
    merged,           \* merge(extracted_facts)
    mergedPerm,       \* merge(permuted)
    \* ---- validate driver (SpecValidate)
    vpc,              \* "input" | "validated" | "revalidated"
    vresults,         \* the argument of validate
    validated,        \* validate(vresults)
    revalidated,      \* validate(validated)
    \* ---- orchestrator/run_rag.py (Spec)
    pc,               \* where the script is
    USER_INPUT,       \* the topic read at line 8
    planner_reply,    \* the reply of the planner's model
    queries,          \* json.loads of it
    q_items,          \* the items `for q in queries` walks
    qi,               \* index of q in q_items
    results,          \* validate(search(q)) of the current query
    ri,               \* index of r in results
    all_facts,        \* the accumulation buffer
    final_facts,      \* merge(all_facts)
    latest_json,      \* ai/facts/latest.json: <<>> until written, then <<output>>
    fault,            \* the exception that ended the run, "none" otherwise
    \* ---- history of the run
    searched,         \* the queries search was called with
    validate_calls,   \* number of calls of validate
    to_extract,       \* the urls of every validated source
    normalized,       \* the urls normalize was called with
    extracted,        \* every pair normalize returned
    merge_calls,      \* number of calls of merge
    merge_arg         \* the buffer merge was called with

mergeVars == <<mpc, extracted_facts, permuted, merged, mergedPerm>>

validateVars == <<vpc, vresults, validated, revalidated>>

scriptVars == <<pc, USER_INPUT, planner_reply, queries, q_items, qi, results, ri,
                all_facts, final_facts, latest_json, fault>>

historyVars == <<searched, validate_calls, to_extract, normalized, extracted,
                 merge_calls, merge_arg>>

runVars == <<scriptVars, historyVars>>

vars == <<mergeVars, validateVars, runVars>>

(***************************************************************************)
(* Bounds of the model.                                                    *)
(***************************************************************************)
MaxFacts == 3

MaxResults == 2

MaxQueries == 2

(***************************************************************************)
(* Sequence and set helpers.                                               *)
(***************************************************************************)
Range(s) == {s[i] : i \in DOMAIN s}

SeqsUpTo(S, n) == UNION {[1..k -> S] : k \in 0..n}

(***************************************************************************)
(* Python string operations, on TLA+ strings.                              *)
(***************************************************************************)
\* s[i:] with i counted from 1.
StrFrom(s, i) == SubSeq(s, i, Len(s))

\* sub in s
Contains(s, sub) ==
    \E i \in 1..(Len(s) - Len(sub) + 1) : SubSeq(s, i, i + Len(sub) - 1) = sub

\* s.find(sub, start), counted from 1; 0 when sub does not occur.
Find(s, sub, start) ==
    LET hits == {i \in start..(Len(s) - Len(sub) + 1) : SubSeq(s, i, i + Len(sub) - 1) = sub}
    IN IF hits = {} THEN 0 ELSE CHOOSE i \in hits : \A j \in hits : i <= j

\* s.replace(old, new) for a non-empty old: every non-overlapping
\* occurrence, left to right.
RECURSIVE Replace(_, _, _)
Replace(s, old, new) ==
    LET i == Find(s, old, 1) IN
    IF i = 0 THEN s
    ELSE SubSeq(s, 1, i - 1) \o new \o Replace(StrFrom(s, i + Len(old)), old, new)

\* s.split(sep) for a one-character sep.
RECURSIVE Split(_, _)
Split(s, sep) ==
    LET i == Find(s, sep, 1) IN
    IF i = 0 THEN <<s>>
    ELSE <<SubSeq(s, 1, i - 1)>> \o Split(StrFrom(s, i + 1), sep)

(***************************************************************************)
(* consensus/merge_facts.py                                                *)
(***************************************************************************)
\* The statement texts and the source urls the extracted facts are drawn from.
\* Two texts differ only in the case of one letter, two only in a trailing blank.
FactTexts == {"Edge runtime has limits", "edge runtime has limits",
              "Edge runtime has limits "}

FactSources == {"https://nextjs.org/docs", "https://vercel.com/docs"}

ExtractedFacts == [fact : FactTexts, source : FactSources]

\* counter = defaultdict(int); sources = defaultdict(set); `order` is the
\* insertion order of counter's keys, which counter.items() follows.
EmptyAcc == [order |-> <<>>, counter |-> <<>>, sources |-> <<>>]

\* defaultdict lookups: a missing key reads as int() = 0, set() = {}.
CounterGet(counter, k) == IF k \in DOMAIN counter THEN counter[k] ELSE 0

SourcesGet(sources, k) == IF k \in DOMAIN sources THEN sources[k] ELSE {}

\* Mutant: keys are compared case-insensitively (lower-cased before use).
Lower(t) == IF t = "Edge runtime has limits" THEN "edge runtime has limits"
            ELSE IF t = "Edge runtime has limits " THEN "edge runtime has limits "
            ELSE t

MergeKeyLower(fact) == Lower(fact.fact)

\* The dict key of one extracted fact: fact["fact"], used as it is.
MergeKey(fact) == fact.fact

\* Mutant: only the first source of a statement is recorded.
MergeStepFirstSource(acc, fact) ==
    LET k == MergeKey(fact) IN
    [order   |-> IF k \in DOMAIN acc.counter THEN acc.order ELSE Append(acc.order, k),
     counter |-> [x \in DOMAIN acc.counter \cup {k} |->
                     IF x = k THEN CounterGet(acc.counter, k) + 1 ELSE acc.counter[x]],
     sources |-> [x \in DOMAIN acc.sources \cup {k} |->
                     IF x = k
                     THEN (IF k \in DOMAIN acc.sources THEN acc.sources[k] ELSE {fact.source})
                     ELSE acc.sources[x]]]

\* One iteration of the first loop:
\*   counter[fact["fact"]] += 1 ; sources[fact["fact"]].add(fact["source"])
MergeStep(acc, fact) ==
    LET k == MergeKey(fact) IN
    [order   |-> IF k \in DOMAIN acc.counter THEN acc.order ELSE Append(acc.order, k),
     counter |-> [x \in DOMAIN acc.counter \cup {k} |->
                     IF x = k THEN CounterGet(acc.counter, k) + 1 ELSE acc.counter[x]],
     sources |-> [x \in DOMAIN acc.sources \cup {k} |->
                     IF x = k THEN SourcesGet(acc.sources, k) \cup {fact.source}
                     ELSE acc.sources[x]]]

\* The first loop, over the facts in order.
RECURSIVE MergeLoop(_)
MergeLoop(facts) ==
    IF facts = <<>> THEN EmptyAcc
    ELSE MergeStep(MergeLoop(SubSeq(facts, 1, Len(facts) - 1)), facts[Len(facts)])

\* Mutant: the sources are kept in a list, so a repeated url is repeated.
ListOfWithRepeats(S) ==
    {l \in [1..(Cardinality(S) + 1) -> S] : Range(l) = S}

\* list(a_set): every element once, in an order the interpreter picks
\* (string hashes are randomised per process).
ListOf(S) == {l \in [1..Cardinality(S) -> S] : Range(l) = S}

\* "high" if count > 1 else "medium"
Confidence(count) == IF count > 1 THEN "high" ELSE "medium"

\* Mutant: "high" asks for two distinct sources instead of two occurrences.
MergedEntriesDistinct(acc, k) ==
    {[fact |-> k, sources |-> l, confidence |-> Confidence(Cardinality(acc.sources[k]))] :
        l \in ListOf(acc.sources[k])}

\* The dicts the second loop may append for one key.
MergedEntries(acc, k) ==
    {[fact |-> k, sources |-> l, confidence |-> Confidence(acc.counter[k])] :
        l \in ListOf(acc.sources[k])}

\* The second loop: one dict per key of counter, in insertion order.
RECURSIVE MergedLists(_, _)
MergedLists(acc, n) ==
    IF n = 0 THEN {<<>>}
    ELSE {Append(p, e) : p \in MergedLists(acc, n - 1),
                         e \in MergedEntries(acc, acc.order[n])}

\* merge(extracted_facts): the set of lists it may return.
merge(facts) ==
    LET acc == MergeLoop(facts) IN MergedLists(acc, Len(acc.order))

(***************************************************************************)
(* Driver of merge: an input drawn from the bounded set, any permutation   *)
(* of it, and merge applied to both.                                       *)
(***************************************************************************)
InitMerge ==
    /\ mpc = "input"
    /\ extracted_facts \in SeqsUpTo(ExtractedFacts, MaxFacts)
    /\ permuted = extracted_facts
    /\ merged = <<>>
    /\ mergedPerm = <<>>

\* Exchange two neighbours of the permuted input.
Swap ==
    /\ mpc = "input"
    /\ \E i \in 1..(Len(permuted) - 1) :
          permuted' = [permuted EXCEPT ![i] = permuted[i + 1], ![i + 1] = permuted[i]]
    /\ UNCHANGED <<mpc, extracted_facts, merged, mergedPerm>>
    /\ UNCHANGED <<validateVars, runVars>>

MergeCall ==
    /\ mpc = "input"
    /\ merged' \in merge(extracted_facts)
    /\ mergedPerm' \in merge(permuted)
    /\ mpc' = "merged"
    /\ UNCHANGED <<extracted_facts, permuted>>
    /\ UNCHANGED <<validateVars, runVars>>

NextMerge == Swap \/ MergeCall

(***************************************************************************)
(* validator/validate_sources.py                                           *)
(***************************************************************************)
\* ALLOWED_DOMAINS of the validator: the broad trust policy.
ALLOWED_DOMAINS ==
    {"developer.mozilla.org", "w3.org", "whatwg.org", "python.org", "docs.python.org",
     "php.net", "ruby-lang.org", "golang.org", "rust-lang.org", "nodejs.org",
     "nextjs.org", "react.dev", "vuejs.org", "angular.io", "vercel.com",
     "firebase.google.com", "aws.amazon.com", "cloud.google.com", "docs.microsoft.com",
     "kubernetes.io", "docker.com", "terraform.io", "ansible.com", "chef.io",
     "pypi.org", "npmjs.com", "rubygems.org", "packagist.org", "crates.io",
     "owasp.org", "nvd.nist.gov", "cve.mitre.org",
     "github.com", "gitlab.com"}

\* The characters a url scheme may hold (urllib.parse.scheme_chars).
SchemeChars == "abcdefghijklmnopqrstuvwxyzABCDEFGHIJKLMNOPQRSTUVWXYZ0123456789+-."

Letters == "abcdefghijklmnopqrstuvwxyzABCDEFGHIJKLMNOPQRSTUVWXYZ"

\* What urlsplit leaves after it has taken the scheme off: the text after
\* the first ":" when what precedes it is a scheme, else the whole url.
AfterScheme(url) ==
    LET i == Find(url, ":", 1) IN
    IF /\ i > 1
       /\ Contains(Letters, SubSeq(url, 1, 1))
       /\ \A j \in 1..(i - 1) : Contains(SchemeChars, SubSeq(url, j, j))
    THEN StrFrom(url, i + 1)
    ELSE url

\* urlparse(url).netloc: after "//", up to the first of "/", "?", "#".
Netloc(url) ==
    LET rest == AfterScheme(url) IN
    IF Len(rest) >= 2 /\ SubSeq(rest, 1, 2) = "//"
    THEN LET ends == {Find(rest, c, 3) : c \in {"/", "?", "#"}} \ {0}
             delim == IF ends = {} THEN Len(rest) + 1
                      ELSE CHOOSE e \in ends : \A f \in ends : e <= f
         IN SubSeq(rest, 3, delim - 1)
    ELSE ""

\* domain = urlparse(url).netloc ; domain = domain.replace("www.", "")
ValidatedDomain(url) == Replace(Netloc(url), "www.", "")

\* any(allowed in domain for allowed in ALLOWED_DOMAINS)
IsTrusted(domain) == \E allowed \in ALLOWED_DOMAINS : Contains(domain, allowed)

\* Mutant: the result is stored with its url normalised to the bare domain.
ValidateStepNormalising(acc, r) ==
    IF IsTrusted(ValidatedDomain(r.url))
    THEN Append(acc, [r EXCEPT !.url = ValidatedDomain(r.url)])
    ELSE acc

\* One iteration of validate's loop: r is appended, as it is, when trusted.
ValidateStep(acc, r) ==
    IF IsTrusted(ValidatedDomain(r.url)) THEN Append(acc, r) ELSE acc

\* validate(results)
RECURSIVE validate(_)
validate(rs) ==
    IF rs = <<>> THEN <<>>
    ELSE ValidateStep(validate(SubSeq(rs, 1, Len(rs) - 1)), rs[Len(rs)])

(***************************************************************************)
(* Driver of validate: an input drawn from the bounded set, validate       *)
(* applied to it, and validate applied to the result.                      *)
(***************************************************************************)
\* Search results with a leading "www.", an inner "www.", an untrusted host,
\* a trusted name in the path only, and no scheme at all.
SampleResults ==
    {[title |-> "Next.js Docs",   url |-> "https://www.nextjs.org/docs",
      snippet |-> "Next.js 14 uses the App Router"],
     [title |-> "Python 3 docs",  url |-> "https://docs.python.org/3/",
      snippet |-> "Python 3.12 was released in 2023"],
     [title |-> "Next.js Docs 2", url |-> "https://nextjs.org/docs",
      snippet |-> "Edge runtime has limits"],
     [title |-> "A blog",         url |-> "https://evil-blog.net/post",
      snippet |-> "Next.js is the best"],
     [title |-> "A look-alike",   url |-> "https://gitwww.hub.com/x",
      snippet |-> "Git 2.0 was released in 2014"],
     [title |-> "Path only",      url |-> "https://example.net/github.com",
      snippet |-> "Nothing"],
     [title |-> "No scheme",      url |-> "nextjs.org/docs",
      snippet |-> "Nothing"]}

InitValidate ==
    /\ vpc = "input"
    /\ vresults \in SeqsUpTo(SampleResults, MaxResults)
    /\ validated = <<>>
    /\ revalidated = <<>>

ValidateCall ==
    /\ vpc = "input"
    /\ validated' = validate(vresults)
    /\ vpc' = "validated"
    /\ UNCHANGED <<vresults, revalidated>>
    /\ UNCHANGED <<mergeVars, runVars>>

Revalidate ==
    /\ vpc = "validated"
    /\ revalidated' = validate(validated)
    /\ vpc' = "revalidated"
    /\ UNCHANGED <<vresults, validated>>
    /\ UNCHANGED <<mergeVars, runVars>>

NextValidate == ValidateCall \/ Revalidate

(***************************************************************************)
(* retriever/search.py                                                     *)
(***************************************************************************)
\* ALLOWED_DOMAINS of the retriever: the narrow trust policy.
SEARCH_ALLOWED_DOMAINS == {"nextjs.org", "vercel.com", "github.com/vercel/next.js"}

\* domain = link.split("/")[2] if "://" in link else ""
LinkDomain(link) == IF Contains(link, "://") THEN Split(link, "/")[3] ELSE ""

\* One iteration of search's loop over organic_results.
SearchStep(acc, item) ==
    IF \E d \in SEARCH_ALLOWED_DOMAINS : Contains(LinkDomain(item.link), d)
    THEN Append(acc, [title |-> item.title, url |-> item.link, snippet |-> item.snippet])
    ELSE acc

\* search(query), given the organic_results of the response.
RECURSIVE search(_)
search(organic) ==
    IF organic = <<>> THEN <<>>
    ELSE SearchStep(search(SubSeq(organic, 1, Len(organic) - 1)), organic[Len(organic)])

\* The organic_results the search service may answer with.
ItemNext == [link |-> "https://nextjs.org/docs/app", title |-> "App Router",
             snippet |-> "Next.js 14 uses the App Router"]

ItemRepo == [link |-> "https://github.com/vercel/next.js", title |-> "next.js",
             snippet |-> "The React Framework"]

ItemVercel == [link |-> "https://www.vercel.com/docs/edge", title |-> "Edge",
               snippet |-> "Edge runtime has limits"]

SearchResponses == {<<>>, <<ItemNext>>, <<ItemNext, ItemRepo, ItemVercel>>}

(***************************************************************************)
(* normalize/normalize.py                                                  *)
(***************************************************************************)
\* content.splitlines(), for "\n" line ends: no last empty line.
SplitLines(content) ==
    LET parts == Split(content, "\n") IN
    IF parts[Len(parts)] = "" THEN SubSeq(parts, 1, Len(parts) - 1) ELSE parts

\* f.strip() is empty
IsBlank(f) == \A i \in 1..Len(f) : SubSeq(f, i, i) \in {" ", "\t"}

\* [{"fact": f, "source": source} for f in facts if f.strip()]
RECURSIVE FactsOfLines(_, _)
FactsOfLines(lines, source) ==
    IF lines = <<>> THEN <<>>
    ELSE LET rest == FactsOfLines(SubSeq(lines, 1, Len(lines) - 1), source)
             f == lines[Len(lines)]
         IN IF IsBlank(f) THEN rest ELSE Append(rest, [fact |-> f, source |-> source])

\* normalize(text, source), given the content of the model's reply.
normalize(content, source) == FactsOfLines(SplitLines(content), source)

\* The replies the generative model may give, whatever the snippet.
ExtractorContents ==
    {"Edge runtime has limits\n\nNext.js 14 uses the App Router\n",
     "Edge runtime has limits\n  \n",
     ""}

(***************************************************************************)
(* planner/plan_queries.py and the json the orchestrator reads from it     *)
(***************************************************************************)
Topics == {"next.js app router", "edge runtime limits"}

QueryStrings == {"next.js app router docs", "next.js edge runtime"}

\* A json document: its kind and its content. An array holds its items, an
\* object its keys in order, a string its text as the one element; a number
\* and a malformed text hold nothing the script reads.
JsonDoc(kind, value) == [json |-> kind, value |-> value]

\* No document: a variable not assigned yet, an output never printed.
NoDoc == JsonDoc("none", <<>>)

\* The contents the planner's model may reply with.
PlannerContents ==
    {JsonDoc("array", qs) : qs \in SeqsUpTo(QueryStrings, MaxQueries)}
    \cup {JsonDoc("string", <<"js">>), JsonDoc("object", <<"queries">>),
          JsonDoc("number", <<>>), JsonDoc("malformed", <<>>)}

\* json.loads(text): raises on a malformed (or empty) text, else the value.
JsonLoads(doc) == [ok |-> doc.json \notin {"malformed", "none"}, value |-> doc]

\* plan_queries.py as a process: json.loads of the reply, then
\* print(json.dumps(queries)); an uncaught exception is a non-zero exit.
PlanProcess(content) ==
    LET r == JsonLoads(content) IN
    [exit |-> IF r.ok THEN 0 ELSE 1, stdout |-> IF r.ok THEN r.value ELSE NoDoc]

\* iter(value) of `for q in queries`: a list gives its items, a dict its
\* keys, a str its characters; a number is not iterable (TypeError).
Iterate(v) ==
    CASE v.json = "array"  -> [ok |-> TRUE, items |-> v.value]
      [] v.json = "object" -> [ok |-> TRUE, items |-> v.value]
      [] v.json = "string" -> [ok |-> TRUE,
                               items |-> [i \in 1..Len(v.value[1]) |-> SubSeq(v.value[1], i, i)]]
      [] OTHER             -> [ok |-> FALSE, items |-> <<>>]

(***************************************************************************)
(* orchestrator/run_rag.py                                                 *)
(***************************************************************************)
InitRun ==
    /\ pc = "plan"
    /\ USER_INPUT \in Topics
    /\ planner_reply = NoDoc
    /\ queries = NoDoc
    /\ q_items = <<>>
    /\ qi = 0
    /\ results = <<>>
    /\ ri = 0
    /\ all_facts = <<>>
    /\ final_facts = <<>>
    /\ latest_json = <<>>
    /\ fault = "none"
    /\ searched = <<>>
    /\ validate_calls = 0
    /\ to_extract = <<>>
    /\ normalized = <<>>
    /\ extracted = <<>>
    /\ merge_calls = 0
    /\ merge_arg = <<>>

\* An uncaught exception ends the script: nothing after it runs.
Abort(why) ==
    /\ pc' = "aborted"
    /\ fault' = why

\* Lines 10-14: the planner process exits 0 and its output parses.
PlanOk ==
    /\ pc = "plan"
    /\ \E content \in PlannerContents :
          LET p == PlanProcess(content) IN
          /\ p.exit = 0
          /\ JsonLoads(p.stdout).ok
          /\ planner_reply' = content
          /\ queries' = JsonLoads(p.stdout).value
    /\ pc' = "for_init"
    /\ UNCHANGED <<USER_INPUT, q_items, qi, results, ri, all_facts, final_facts,
                   latest_json, fault>>
    /\ UNCHANGED <<historyVars, mergeVars, validateVars>>

\* Lines 10-14: the planner process exits non-zero (its reply did not parse),
\* check_output raises CalledProcessError.
PlanFail ==
    /\ pc = "plan"
    /\ \E content \in PlannerContents :
          LET p == PlanProcess(content) IN
          /\ p.exit # 0
          /\ planner_reply' = content
    /\ Abort("planning")
    /\ UNCHANGED <<USER_INPUT, queries, q_items, qi, results, ri, all_facts,
                   final_facts, latest_json>>
    /\ UNCHANGED <<historyVars, mergeVars, validateVars>>

\* Mutant: an empty plan is refused as an error.
IterQueriesRejectEmpty ==
    /\ pc = "for_init"
    /\ Iterate(queries).ok
    /\ all_facts' = <<>>
    /\ q_items' = Iterate(queries).items
    /\ qi' = 1
    /\ IF Iterate(queries).items = <<>>
       THEN Abort("planning")
       ELSE pc' = "for_q" /\ fault' = fault
    /\ UNCHANGED <<USER_INPUT, planner_reply, queries, results, ri, final_facts,
                   latest_json>>
    /\ UNCHANGED <<historyVars, mergeVars, validateVars>>

\* Lines 16-18: all_facts = [] and the loop over queries starts.
IterQueries ==
    /\ pc = "for_init"
    /\ Iterate(queries).ok
    /\ all_facts' = <<>>
    /\ q_items' = Iterate(queries).items
    /\ qi' = 1
    /\ pc' = "for_q"
    /\ UNCHANGED <<USER_INPUT, planner_reply, queries, results, ri, final_facts,
                   latest_json, fault>>
    /\ UNCHANGED <<historyVars, mergeVars, validateVars>>

\* Lines 16-18: queries is not iterable, `for` raises TypeError.
IterFail ==
    /\ pc = "for_init"
    /\ ~Iterate(queries).ok
    /\ all_facts' = <<>>
    /\ Abort("not iterable")
    /\ UNCHANGED <<USER_INPUT, planner_reply, queries, q_items, qi, results, ri,
                   final_facts, latest_json>>
    /\ UNCHANGED <<historyVars, mergeVars, validateVars>>

\* Line 19: results = validate(search(q)), the search service answering.
SearchOk ==
    /\ pc = "for_q"
    /\ qi <= Len(q_items)
    /\ \E organic \in SearchResponses :
          /\ results' = validate(search(organic))
          /\ to_extract' = to_extract \o [i \in DOMAIN results' |-> results'[i].url]
    /\ searched' = Append(searched, q_items[qi])
    /\ validate_calls' = validate_calls + 1
    /\ ri' = 1
    /\ pc' = "for_r"
    /\ UNCHANGED <<USER_INPUT, planner_reply, queries, q_items, qi, all_facts,
                   final_facts, latest_json, fault>>
    /\ UNCHANGED <<normalized, extracted, merge_calls, merge_arg>>
    /\ UNCHANGED <<mergeVars, validateVars>>

\* Line 19: requests.get or raise_for_status raises inside search; nothing
\* catches it.
SearchFail ==
    /\ pc = "for_q"
    /\ qi <= Len(q_items)
    /\ searched' = Append(searched, q_items[qi])
    /\ Abort("retrieval")
    /\ UNCHANGED <<USER_INPUT, planner_reply, queries, q_items, qi, results, ri,
                   all_facts, final_facts, latest_json>>
    /\ UNCHANGED <<validate_calls, to_extract, normalized, extracted, merge_calls,
                   merge_arg>>
    /\ UNCHANGED <<mergeVars, validateVars>>

\* Lines 20-21: all_facts.extend(normalize(r["snippet"], r["url"]))
NormalizeOk ==
    /\ pc = "for_r"
    /\ ri <= Len(results)
    /\ \E content \in ExtractorContents :
          LET facts == normalize(content, results[ri].url) IN
          /\ all_facts' = all_facts \o facts
          /\ extracted' = extracted \o facts
    /\ normalized' = Append(normalized, results[ri].url)
    /\ ri' = ri + 1
    /\ UNCHANGED <<pc, USER_INPUT, planner_reply, queries, q_items, qi, results,
                   final_facts, latest_json, fault>>
    /\ UNCHANGED <<searched, validate_calls, to_extract, merge_calls, merge_arg>>
    /\ UNCHANGED <<mergeVars, validateVars>>

\* Line 21: the call of the generative model raises inside normalize; nothing
\* catches it.
NormalizeFail ==
    /\ pc = "for_r"
    /\ ri <= Len(results)
    /\ normalized' = Append(normalized, results[ri].url)
    /\ Abort("extraction")
    /\ UNCHANGED <<USER_INPUT, planner_reply, queries, q_items, qi, results, ri,
                   all_facts, final_facts, latest_json>>
    /\ UNCHANGED <<searched, validate_calls, to_extract, extracted, merge_calls,
                   merge_arg>>
    /\ UNCHANGED <<mergeVars, validateVars>>

\* Mutant: merge is called at the end of every query, inside the loop.
EndSourcesMergingEach ==
    /\ pc = "for_r"
    /\ ri > Len(results)
    /\ qi' = qi + 1
    /\ pc' = "for_q"
    /\ final_facts' \in merge(all_facts)
    /\ merge_calls' = merge_calls + 1
    /\ merge_arg' = all_facts
    /\ UNCHANGED <<USER_INPUT, planner_reply, queries, q_items, results, ri,
                   all_facts, latest_json, fault>>
    /\ UNCHANGED <<searched, validate_calls, to_extract, normalized, extracted>>
    /\ UNCHANGED <<mergeVars, validateVars>>

\* Line 20: the loop over results is exhausted; on to the next query.
EndSources ==
    /\ pc = "for_r"
    /\ ri > Len(results)
    /\ qi' = qi + 1
    /\ pc' = "for_q"
    /\ UNCHANGED <<USER_INPUT, planner_reply, queries, q_items, results, ri,
                   all_facts, final_facts, latest_json, fault>>
    /\ UNCHANGED <<historyVars, mergeVars, validateVars>>

\* Line 23, the loop over queries exhausted: final_facts = merge(all_facts)
MergeFacts ==
    /\ pc = "for_q"
    /\ qi > Len(q_items)
    /\ final_facts' \in merge(all_facts)
    /\ merge_calls' = merge_calls + 1
    /\ merge_arg' = all_facts
    /\ pc' = "persist"
    /\ UNCHANGED <<USER_INPUT, planner_reply, queries, q_items, qi, results, ri,
                   all_facts, latest_json, fault>>
    /\ UNCHANGED <<searched, validate_calls, to_extract, normalized, extracted>>
    /\ UNCHANGED <<mergeVars, validateVars>>

\* Lines 25-31: output = {topic, facts}; json.dump(output) to latest.json
Persist ==
    /\ pc = "persist"
    /\ latest_json' = <<[topic |-> USER_INPUT, facts |-> final_facts]>>
    /\ pc' = "done"
    /\ UNCHANGED <<USER_INPUT, planner_reply, queries, q_items, qi, results, ri,
                   all_facts, final_facts, fault>>
    /\ UNCHANGED <<historyVars, mergeVars, validateVars>>

NextRun ==
    \/ PlanOk
    \/ PlanFail
    \/ IterQueries
    \/ IterFail
    \/ SearchOk
    \/ SearchFail
    \/ NormalizeOk
    \/ NormalizeFail
    \/ EndSources
    \/ MergeFacts
    \/ Persist

(***************************************************************************)
(* The specifications.                                                     *)
(***************************************************************************)
MergeIdle ==
    /\ mpc = "idle"
    /\ extracted_facts = <<>>
    /\ permuted = <<>>
    /\ merged = <<>>
    /\ mergedPerm = <<>>

ValidateIdle ==
    /\ vpc = "idle"
    /\ vresults = <<>>
    /\ validated = <<>>
    /\ revalidated = <<>>

RunIdle ==
    /\ pc = "idle"
    /\ USER_INPUT = ""
    /\ planner_reply = NoDoc
    /\ queries = NoDoc
    /\ q_items = <<>>
    /\ qi = 0
    /\ results = <<>>
    /\ ri = 0
    /\ all_facts = <<>>
    /\ final_facts = <<>>
    /\ latest_json = <<>>
    /\ fault = "none"
    /\ searched = <<>>
    /\ validate_calls = 0
    /\ to_extract = <<>>
    /\ normalized = <<>>
    /\ extracted = <<>>
    /\ merge_calls = 0
    /\ merge_arg = <<>>

\* One run of the orchestrator.
Init == InitRun /\ MergeIdle /\ ValidateIdle

Next == NextRun

Spec == Init /\ [][Next]_vars

\* merge applied to bounded inputs and their permutations.
InitMergeOnly == InitMerge /\ ValidateIdle /\ RunIdle

SpecMerge == InitMergeOnly /\ [][NextMerge]_vars

\* validate applied to bounded inputs, and to its own result.
InitValidateOnly == InitValidate /\ MergeIdle /\ RunIdle

SpecValidate == InitValidateOnly /\ [][NextValidate]_vars

(***************************************************************************)
(* Properties of merge.                                                    *)
(***************************************************************************)
\* The number of input pairs whose statement is t, repeats included.
Occurrences(facts, t) == Cardinality({i \in DOMAIN facts : facts[i].fact = t})

\* The distinct sources of the input pairs whose statement is t.
SourcesOfText(facts, t) == {facts[i].source : i \in {j \in DOMAIN facts : facts[j].fact = t}}

\* A merged list as an unordered set of {text, sources-as-set, confidence}.
FactSet(m) ==
    {[text |-> m[i].fact, sources |-> Range(m[i].sources), confidence |-> m[i].confidence] :
        i \in DOMAIN m}

\* C1: every fact merge emits has confidence "high" exactly when its text
\* occurs more than once among the input pairs (repeats from one source
\* count), and "medium" when it occurs once.
C1_ConfidenceByOccurrences ==
    mpc = "merged" =>
        \A i \in DOMAIN merged :
            LET n == Occurrences(extracted_facts, merged[i].fact) IN
            /\ merged[i].confidence \in {"high", "medium"}
            /\ (merged[i].confidence = "high") <=> (n > 1)
            /\ (n = 1) => (merged[i].confidence = "medium")

\* C1 witness: a text given twice by one and the same source is "high".
C1_Witness ==
    /\ mpc = "merged"
    /\ Len(extracted_facts) = 2
    /\ extracted_facts[1] = extracted_facts[2]
    /\ Len(merged) = 1
    /\ Len(merged[1].sources) = 1
    /\ merged[1].confidence = "high"

\* C2: merge of an input and merge of any permutation of it agree as
\* unordered sets of {text, sources-as-set, confidence}.
C2_OrderIndependent ==
    mpc = "merged" => FactSet(merged) = FactSet(mergedPerm)

\* C2 witness: the permutation differs from the input, and the two merged
\* lists differ as lists although they agree as sets.
C2_Witness ==
    /\ mpc = "merged"
    /\ permuted # extracted_facts
    /\ merged # mergedPerm
    /\ Len(merged) >= 2
    /\ \E i \in DOMAIN merged : Len(merged[i].sources) = 2

\* C3: the sources list of every emitted fact has no repeated url, holds
\* exactly the distinct sources of the input pairs with that text, and is
\* no longer than the number of those pairs.
C3_SourcesDeduplicated ==
    mpc = "merged" =>
        \A i \in DOMAIN merged :
            LET l == merged[i].sources IN
            /\ \A a, b \in DOMAIN l : a # b => l[a] # l[b]
            /\ Range(l) = SourcesOfText(extracted_facts, merged[i].fact)
            /\ Len(l) <= Occurrences(extracted_facts, merged[i].fact)

\* C3 witness: three pairs with one text from two sources give two urls.
C3_Witness ==
    /\ mpc = "merged"
    /\ Len(extracted_facts) = 3
    /\ Len(merged) = 1
    /\ Len(merged[1].sources) = 2

\* C4: every text of the input is the text of exactly one emitted fact, no
\* emitted fact has a text the input lacks, and texts that differ in any
\* character stay in different facts.
C4_OneFactPerExactText ==
    mpc = "merged" =>
        /\ \A j \in DOMAIN extracted_facts :
              Cardinality({i \in DOMAIN merged : merged[i].fact = extracted_facts[j].fact}) = 1
        /\ \A i \in DOMAIN merged :
              \E j \in DOMAIN extracted_facts : extracted_facts[j].fact = merged[i].fact
        /\ Len(merged) = Cardinality({extracted_facts[j].fact : j \in DOMAIN extracted_facts})

\* C4 witness: three texts that differ only in case or in a trailing blank
\* give three facts.
C4_Witness ==
    /\ mpc = "merged"
    /\ {extracted_facts[j].fact : j \in DOMAIN extracted_facts} = FactTexts
    /\ Len(merged) = 3

(***************************************************************************)
(* Properties of validate.                                                 *)
(***************************************************************************)
\* The host with a leading "www." taken off and nothing else removed.
StripLeadingWww(host) ==
    IF Len(host) >= 4 /\ SubSeq(host, 1, 4) = "www." THEN StrFrom(host, 5) ELSE host

\* a is a subsequence of b: the elements of a, in their order, among b's.
RECURSIVE IsSubsequence(_, _)
IsSubsequence(a, b) ==
    IF a = <<>> THEN TRUE
    ELSE IF b = <<>> THEN FALSE
    ELSE IF a[1] = b[1] THEN IsSubsequence(Tail(a), Tail(b))
    ELSE IsSubsequence(a, Tail(b))

\* C5: validate returns exactly the results whose host, with a leading
\* "www." stripped and nothing else removed, contains an entry of the broad
\* trust policy.
C5_AdmitsByLeadingWwwStrippedHost ==
    vpc # "input" =>
        validated = SelectSeq(vresults,
                              LAMBDA r : IsTrusted(StripLeadingWww(Netloc(r.url))))

\* C6: validate(validate(x)) = validate(x), validate(x) is a subsequence
\* of x in the same order, and every result it returns is a result of x
\* with title, url and snippet as they were.
C6_IdempotentOrderPreserving ==
    /\ vpc # "input" =>
          /\ IsSubsequence(validated, vresults)
          /\ \A i \in DOMAIN validated :
                \E j \in DOMAIN vresults :
                    /\ validated[i].title = vresults[j].title
                    /\ validated[i].url = vresults[j].url
                    /\ validated[i].snippet = vresults[j].snippet
    /\ vpc = "revalidated" => revalidated = validated

\* C6 witness: two results admitted and one rejected between other results,
\* validated twice.
C6_Witness ==
    /\ vpc = "revalidated"
    /\ Len(vresults) >= 2
    /\ Len(validated) >= 1
    /\ Len(validated) < Len(vresults)
    /\ revalidated = validated
    /\ \E i \in DOMAIN validated : Contains(validated[i].url, "www.")

(***************************************************************************)
(* Properties of the orchestrator.                                         *)
(***************************************************************************)
\* The run has ended: the script ran to its last line, or an exception
\* ended it.
Terminated == pc \in {"done", "aborted"}

\* The planner's output has been read.
Planned == pc # "plan"

\* merge ran after the whole of the search, validate and extract steps, on
\* the buffer that holds every extracted pair, and the report was written
\* after it.
MergeAfterJoin ==
    /\ merge_calls <= 1
    /\ merge_calls = 0 => all_facts = extracted /\ latest_json = <<>>
    /\ merge_calls = 1 =>
          /\ pc \in {"persist", "done"}
          /\ qi > Len(q_items)
          /\ searched = q_items
          /\ validate_calls = Len(q_items)
          /\ normalized = to_extract
          /\ merge_arg = extracted
          /\ merge_arg = all_facts
          /\ final_facts \in merge(merge_arg)
    /\ latest_json # <<>> =>
          /\ merge_calls = 1
          /\ latest_json[1].facts = final_facts
    /\ pc = "done" => merge_calls = 1 /\ latest_json # <<>>

C8_EmptyPlanGivesEmptyReport ==
    (Planned /\ planner_reply = JsonDoc("array", <<>>)) =>
        /\ pc # "aborted"
        /\ fault = "none"
        /\ searched = <<>>
        /\ validate_calls = 0
        /\ normalized = <<>>
        /\ pc = "done" \/ ENABLED NextRun
        /\ pc = "done" => latest_json = <<[topic |-> USER_INPUT, facts |-> <<>>]>>

\* C8 witness: a run with an empty plan that has written its report.
C8_Witness ==
    /\ pc = "done"
    /\ planner_reply = JsonDoc("array", <<>>)
    /\ latest_json = <<[topic |-> USER_INPUT, facts |-> <<>>]>>

\* C9: a search that fails for one query, or an extraction that fails for
\* one source, does not end the run: the run goes on to the remaining
\* queries and sources, keeps the facts gathered so far, and ends with
\* merge called and a report persisted.
C9_BranchFailuresIsolated ==
    (Terminated /\ fault \in {"retrieval", "extraction"}) =>
        /\ pc = "done"
        /\ searched = q_items
        /\ merge_calls = 1
        /\ merge_arg = extracted
        /\ latest_json # <<>>

\* C10: when the planner's output is malformed or is well-formed json that
\* is not a list, the run makes no search or extraction call, never reaches
\* the end of the script and persists no report.
C10_NonListPlanIsFatal ==
    (Planned /\ planner_reply.json # "array") =>
        /\ searched = <<>>
        /\ normalized = <<>>
        /\ merge_calls = 0
        /\ latest_json = <<>>
        /\ pc # "done"

====
